---- MODULE Spec2Model ----
(***************************************************************************)
(* ExifSort (src/main.rs): a batch run that renames JPEG files into an     *)
(* output directory after their EXIF DateTimeOriginal value.               *)
(*                                                                         *)
(* The run is modelled as a state machine over a small file system:        *)
(*   setup checks -> enumeration -> phase 1 (parallel get_date_taken)      *)
(*   -> phase 2 (sequential naming loop) -> phase 3 (parallel fs::rename)  *)
(*   -> error summary and exit status.                                     *)
(*                                                                         *)
(* Texts (EXIF values, file names) are sequences of one-character strings, *)
(* so that str::replace and format! are computed, not assumed.             *)
(* A file path is a record [dir, name]: dir is the physical directory (a   *)
(* sequence of components below the working directory) and name the file   *)
(* name.  A directory argument is a lexical path: a sequence of components *)
(* that may start with the "." component, as std::path keeps it.           *)
(***************************************************************************)
EXTENDS Integers, Sequences, FiniteSets, TLC

VARIABLES
    pc,             \* position of main: start, aborted (a setup check returned Err),
                    \* extracting, planning, moving, reporting, done
    in_dir,         \* args.in_dir (lexical)
    out_dir,        \* args.out_dir (lexical)
    full_scan,      \* args.full_scan
    dirs,           \* the directories that exist (physical)
    fs,             \* the files that exist: path -> file identity
    content,        \* file identity -> what the EXIF decoder finds in it
    jpeg_files,     \* the enumerated candidates, in enumeration order
    result,         \* phase 1: per candidate index, the worker's result
    finished,       \* phase 1: candidate indexes in the order the workers finished
                    \* (kept until the naming loop starts on parsed_data)
    parsed_data,    \* phase 1's collected successes
    failed_files,   \* the Mutex<Vec<String>> of failure messages
    planned_moves,  \* phase 2's output
    used_names,     \* phase 2's HashSet of claimed names
    plan_idx,       \* phase 2: index in parsed_data of the entry being named
    counter,        \* phase 2: the naming loop's counter
    move_state,     \* phase 3: per planned move: pending, ok, failed
    summary,        \* the messages printed by the error summary
    exit_status,    \* none, ok (main returned Ok), err (main returned Err)
    fs0,            \* the files at the start of the run
    dirs0           \* the directories at the start of the run

vars == <<pc, in_dir, out_dir, full_scan, dirs, fs, content, jpeg_files, result,
          finished, parsed_data, failed_files, planned_moves, used_names,
          plan_idx, counter, move_state, summary, exit_status, fs0, dirs0>>

----------------------------------------------------------------------------
(* Bounds and inputs *)

\* The number of files in the modelled world (input files plus files already
\* in the output directory).
MaxFiles == 3

JpgExt == <<".", "j", "p", "g">>

\* EXIF DateTimeOriginal values.  TsA has the documented shape (colons in
\* the date, a space, ...); TsB is a different value with the same
\* transformed name; TsC is TsA followed by " 1", whose transformed name is
\* TsA's name with the suffix _1.  The code does not validate the value.
\* Values with path separators are not among the modelled ones.
TsA == <<"1", ":", "2", " ", "3", ":", "4">>
TsB == <<"1", "-", "2", " ", "3", ":", "4">>
TsC == <<"1", ":", "2", " ", "3", ":", "4", " ", "1">>

\* What a file holds, as far as the run can tell: the tag's value and
\* whether the tag lies in the first 64 KiB ("head"), beyond it ("tail"),
\* or the file has no readable tag at all ("none": unreadable file, rejected
\* buffer, or no DateTimeOriginal entry).
NoTag == [ts |-> <<>>, pos |-> "none"]
FileContents ==
    { [ts |-> TsA, pos |-> "head"],
      [ts |-> TsB, pos |-> "head"],
      [ts |-> TsC, pos |-> "head"],
      [ts |-> TsA, pos |-> "tail"],
      NoTag }

\* Input files: a.jpg, b.jpg, ... in the directory "in".
SrcLetters == <<"a", "b", "c", "d", "e", "f">>
SrcPath(i) == [dir |-> <<"in">>, name |-> <<SrcLetters[i]>> \o JpgExt]

\* Names of the files that may already be in the output directory: the
\* names an earlier run gave to two photos taken at TsA.
PreNames ==
    << <<"1", "-", "2", "_", "3", "-", "4">> \o JpgExt,
       <<"1", "-", "2", "_", "3", "-", "4", "_", "1">> \o JpgExt >>
PreContent == [ts |-> TsA, pos |-> "head"]

\* The command lines: (in_dir, out_dir).
ArgPairs ==
    { << <<"in">>, <<"out">> >>,            \* separate directories
      << <<"in">>, <<"in", "sub">> >>,      \* out nested in in
      << <<"in">>, <<"in">> >>,             \* out identical to in
      << <<".", "in">>, <<"in", "sub">> >>, \* out nested in in, in written ./in
      << <<"nodir">>, <<"out">> >> }        \* in is not a directory

----------------------------------------------------------------------------
(* std::path and the file system *)

\* The directory a lexical path names: a leading "." is the working
\* directory itself.
Resolve(p) == IF Len(p) > 0 /\ p[1] = "." THEN SubSeq(p, 2, Len(p)) ELSE p

IsPrefix(a, b) == Len(a) <= Len(b) /\ SubSeq(b, 1, Len(a)) = a

\* Path::starts_with: component-wise prefix of the lexical paths.
StartsWith(p, base) == IsPrefix(base, p)

\* Path::is_dir
IsDir(p) == Resolve(p) \in dirs

\* Path::join of a directory argument and a file name.
Join(d, name) == [dir |-> Resolve(d), name |-> name]

\* Path::exists for a file path.
Exists(f, p) == p \in DOMAIN f

\* fs::create_dir_all: the directory and all its parents.
CreateDirAll(ds, p) ==
    ds \cup { SubSeq(Resolve(p), 1, k) : k \in 1..Len(Resolve(p)) }

\* extension().map_or(false, eq_ignore_ascii_case("jpg") || ...("jpeg")):
\* the modelled names are lower case and only the jpg extension occurs.
HasJpegExt(name) ==
    /\ Len(name) > Len(JpgExt)
    /\ SubSeq(name, Len(name) - Len(JpgExt) + 1, Len(name)) = JpgExt

\* WalkDir::new(in_dir): the files below in_dir, in a fixed order (the
\* input files by name, then the files of deeper directories by name).
AllPaths(outphys) ==
    [i \in 1..(MaxFiles + Len(PreNames)) |->
        IF i <= MaxFiles THEN SrcPath(i)
        ELSE [dir |-> outphys, name |-> PreNames[i - MaxFiles]]]

WalkJpeg(f, indir, outphys) ==
    SelectSeq(AllPaths(outphys),
              LAMBDA p : /\ p \in DOMAIN f
                         /\ IsPrefix(Resolve(indir), p.dir)
                         /\ HasJpegExt(p.name))

----------------------------------------------------------------------------
(* Initial states: a command line and a file system *)

InitFs(outphys, nsrc, pre) ==
    LET paths == { SrcPath(i) : i \in 1..nsrc }
                 \cup { [dir |-> outphys, name |-> PreNames[k]] : k \in pre }
    IN  [p \in paths |-> p]

Init ==
    /\ pc = "start"
    /\ \E a \in ArgPairs : in_dir = a[1] /\ out_dir = a[2]
    /\ full_scan \in BOOLEAN
    /\ \E pre \in SUBSET (1..Len(PreNames)) :
         /\ fs = InitFs(Resolve(out_dir), MaxFiles - Cardinality(pre), pre)
         /\ dirs = {<<"in">>} \cup (IF pre = {} THEN {} ELSE
                      { SubSeq(Resolve(out_dir), 1, k) : k \in 1..Len(Resolve(out_dir)) })
    /\ \E c \in [1..MaxFiles -> FileContents] :
         content = [p \in DOMAIN fs |->
                      IF \E i \in 1..MaxFiles : SrcPath(i) = p
                      THEN c[CHOOSE i \in 1..MaxFiles : SrcPath(i) = p]
                      ELSE PreContent]
    /\ jpeg_files = <<>>
    /\ result = <<>>
    /\ finished = <<>>
    /\ parsed_data = <<>>
    /\ failed_files = <<>>
    /\ planned_moves = <<>>
    /\ used_names = {}
    /\ plan_idx = 0
    /\ counter = 0
    /\ move_state = <<>>
    /\ summary = <<>>
    /\ exit_status = "none"
    /\ fs0 = fs
    /\ dirs0 = dirs

----------------------------------------------------------------------------
(* get_date_taken *)

\* Ok(value) or Err: the bounded read sees only a tag in the first 64 KiB,
\* the full scan sees every tag.
get_date_taken(c, full) ==
    IF c.pos = "none" \/ (c.pos = "tail" /\ ~full)
    THEN [ok |-> FALSE, date_str |-> <<>>]
    ELSE [ok |-> TRUE, date_str |-> c.ts]

----------------------------------------------------------------------------
(* Setup: main, lines 50-74 *)

Abort ==
    /\ pc' = "aborted"
    /\ exit_status' = "err"
    /\ UNCHANGED <<in_dir, out_dir, full_scan, dirs, fs, content, jpeg_files,
                   result, finished, parsed_data, failed_files, planned_moves,
                   used_names, plan_idx, counter, move_state, summary, fs0, dirs0>>

\* if !args.in_dir.is_dir() { return Err }
SetupInputError ==
    /\ pc = "start"
    /\ ~IsDir(in_dir)
    /\ Abort

\* if args.out_dir.starts_with(&args.in_dir) { return Err }
SetupOutputError ==
    /\ pc = "start"
    /\ IsDir(in_dir)
    /\ StartsWith(out_dir, in_dir)
    /\ Abort

\* fs::create_dir_all(&args.out_dir)? returning the error
SetupCreateError ==
    /\ pc = "start"
    /\ IsDir(in_dir)
    /\ ~StartsWith(out_dir, in_dir)
    /\ ~IsDir(out_dir)
    /\ Abort

\* create_dir_all succeeds, the walker collects jpeg_files, phase 1 starts.
SetupOk ==
    /\ pc = "start"
    /\ IsDir(in_dir)
    /\ ~StartsWith(out_dir, in_dir)
    /\ dirs' = CreateDirAll(dirs, out_dir)
    /\ jpeg_files' = WalkJpeg(fs, in_dir, Resolve(out_dir))
    /\ result' = [i \in 1..Len(jpeg_files') |-> [st |-> "pending", date_str |-> <<>>]]
    /\ pc' = "extracting"
    /\ UNCHANGED <<in_dir, out_dir, full_scan, fs, content, finished, parsed_data,
                   failed_files, planned_moves, used_names, plan_idx, counter,
                   move_state, summary, exit_status, fs0, dirs0>>

----------------------------------------------------------------------------
(* Phase 1: parallel EXIF parsing, lines 88-104 *)

\* One worker's closure for candidate i: get_date_taken, and on Err the
\* message pushed under the mutex.
Extract(i) ==
    /\ pc = "extracting"
    /\ result[i].st = "pending"
    /\ LET r == get_date_taken(content[fs[jpeg_files[i]]], full_scan)
       IN  /\ result' = [result EXCEPT
                            ![i] = [st |-> IF r.ok THEN "ok" ELSE "err",
                                    date_str |-> r.date_str]]
           /\ failed_files' =
                 IF r.ok THEN failed_files
                 ELSE Append(failed_files,
                             [stage |-> "extraction", path |-> jpeg_files[i]])
    /\ finished' = Append(finished, i)
    /\ UNCHANGED <<pc, in_dir, out_dir, full_scan, dirs, fs, content, jpeg_files,
                   parsed_data, planned_moves, used_names, plan_idx, counter,
                   move_state, summary, exit_status, fs0, dirs0>>

\* A collect that would take the successes in the order the workers
\* finished.
ParCollectInFinishOrder(files, res, order) ==
    LET idx == SelectSeq(order, LAMBDA i : res[i].st = "ok")
    IN  [k \in 1..Len(idx) |->
            [path |-> files[idx[k]], date_str |-> res[idx[k]].date_str]]

\* A collect that would stop at the first Err in enumeration order (as a
\* collect into a Result does).
ParCollectUntilError(files, res, order) ==
    LET all == [i \in 1..Len(files) |-> i]
        idx == SelectSeq(all, LAMBDA i : \A j \in 1..i : res[j].st = "ok")
    IN  [k \in 1..Len(idx) |->
            [path |-> files[idx[k]], date_str |-> res[idx[k]].date_str]]

\* A collect that would keep the failed candidates, with the empty date
\* string.
ParCollectWithErrors(files, res, order) ==
    [i \in 1..Len(files) |-> [path |-> files[i], date_str |-> res[i].date_str]]

\* par_iter().filter_map(..).collect::<Vec<_>>(): the Some results in the
\* order of jpeg_files, whatever order the workers finished in.
ParCollect(files, res, order) ==
    LET idx == SelectSeq([i \in 1..Len(files) |-> i], LAMBDA i : res[i].st = "ok")
    IN  [k \in 1..Len(idx) |->
            [path |-> files[idx[k]], date_str |-> res[idx[k]].date_str]]

\* A join that would let phase 2 start as soon as one worker has returned.
Phase1JoinEarly ==
    /\ pc = "extracting"
    /\ \E i \in 1..Len(jpeg_files) : result[i].st # "pending"
    /\ parsed_data' = ParCollect(jpeg_files, result, finished)
    /\ plan_idx' = 1
    /\ counter' = 0
    /\ pc' = "planning"
    /\ UNCHANGED <<in_dir, out_dir, full_scan, dirs, fs, content, jpeg_files,
                   result, finished, failed_files, planned_moves, used_names,
                   move_state, summary, exit_status, fs0, dirs0>>

\* collect() returns when every worker has returned; phase 2 starts.
Phase1Join ==
    /\ pc = "extracting"
    /\ \A i \in 1..Len(jpeg_files) : result[i].st # "pending"
    /\ parsed_data' = ParCollect(jpeg_files, result, finished)
    /\ plan_idx' = 1
    /\ counter' = 0
    /\ pc' = "planning"
    /\ UNCHANGED <<in_dir, out_dir, full_scan, dirs, fs, content, jpeg_files,
                   result, finished, failed_files, planned_moves, used_names,
                   move_state, summary, exit_status, fs0, dirs0>>

----------------------------------------------------------------------------
(* Phase 2: sequential destination planning, lines 107-125 *)

\* A replace that would change the first occurrence only (as replacen
\* with a count of 1 does).
ReplaceFirst(s, from, to) ==
    [i \in 1..Len(s) |->
        IF s[i] = from /\ (\A j \in 1..(i - 1) : s[j] # from) THEN to ELSE s[i]]

\* str::replace(from, to) for one-character patterns.
Replace(s, from, to) == [i \in 1..Len(s) |-> IF s[i] = from THEN to ELSE s[i]]

\* date_str.replace(':', "-").replace(' ', "_")
base_name(date_str) == Replace(Replace(date_str, ":", "-"), " ", "_")

DigitChars == <<"0", "1", "2", "3", "4", "5", "6", "7", "8", "9">>

\* format!("{}", counter) for counter >= 0
RECURSIVE Decimal(_)
Decimal(n) ==
    IF n < 10 THEN <<DigitChars[n + 1]>>
    ELSE Decimal(n \div 10) \o <<DigitChars[(n % 10) + 1]>>

\* A format that would add the suffix from counter 2 on only (the test
\* written counter <= 1), so that the first retry tries the base name again.
out_nameLateSuffix(base, cnt) ==
    IF cnt <= 1 THEN base \o JpgExt
    ELSE base \o <<"_">> \o Decimal(cnt) \o JpgExt

\* format!("{}.jpg", base_name) or format!("{}_{}.jpg", base_name, counter)
out_name(base, cnt) ==
    IF cnt = 0 THEN base \o JpgExt
    ELSE base \o <<"_">> \o Decimal(cnt) \o JpgExt

\* A test that would look only at the names claimed in this run.
IsFreeIgnoringDisk(f, used, dest, name) == name \notin used

\* A test that would look only at the output directory.
IsFreeIgnoringClaimed(f, used, dest, name) == ~Exists(f, dest)

\* !dest_path_candidate.exists() && used_names.insert(out_name)
IsFree(f, used, dest, name) == ~Exists(f, dest) /\ name \notin used

\* An insert that would run before the test of the disk (the operands of
\* && swapped): the name is added whether or not the path exists.
AfterInsertAlways(f, used, dest, name) == used \cup {name}

\* used_names after the test: insert runs only when the path does not
\* exist (&& short-circuits) and adds the name when it is not there yet.
AfterInsert(f, used, dest, name) ==
    IF Exists(f, dest) THEN used ELSE used \cup {name}

\* A naming loop that would not always take the first free name: it may
\* pass over a free name (at most twice in a row), as a namer drawing its
\* suffix from a clock or a random source would.
PlanTrialAnyFree ==
    /\ pc = "planning"
    /\ plan_idx <= Len(parsed_data)
    /\ LET e == parsed_data[plan_idx]
           name == out_name(base_name(e.date_str), counter)
           dest == Join(out_dir, name)
       IN  \E take \in BOOLEAN :
             /\ take \/ counter < 2
             /\ IF take /\ IsFree(fs, used_names, dest, name)
                THEN /\ used_names' = used_names \cup {name}
                     /\ planned_moves' =
                          Append(planned_moves, [source |-> e.path, dest |-> dest])
                     /\ plan_idx' = plan_idx + 1
                     /\ counter' = 0
                ELSE /\ counter' = counter + 1
                     /\ UNCHANGED <<planned_moves, plan_idx, used_names>>
    /\ finished' = <<>>
    /\ UNCHANGED <<pc, in_dir, out_dir, full_scan, dirs, fs, content, jpeg_files,
                   result, parsed_data, failed_files, move_state,
                   summary, exit_status, fs0, dirs0>>

\* A naming loop that would try the same name again after a collision
\* (the counter is not incremented).
PlanTrialSameName ==
    /\ pc = "planning"
    /\ plan_idx <= Len(parsed_data)
    /\ LET e == parsed_data[plan_idx]
           name == out_name(base_name(e.date_str), counter)
           dest == Join(out_dir, name)
       IN  /\ used_names' = AfterInsert(fs, used_names, dest, name)
           /\ IF IsFree(fs, used_names, dest, name)
              THEN /\ planned_moves' =
                        Append(planned_moves, [source |-> e.path, dest |-> dest])
                   /\ plan_idx' = plan_idx + 1
                   /\ counter' = 0
              ELSE UNCHANGED <<planned_moves, plan_idx, counter>>
    /\ finished' = <<>>
    /\ UNCHANGED <<pc, in_dir, out_dir, full_scan, dirs, fs, content, jpeg_files,
                   result, parsed_data, failed_files, move_state,
                   summary, exit_status, fs0, dirs0>>

\* One iteration of the naming loop for parsed_data[plan_idx].
PlanTrial ==
    /\ pc = "planning"
    /\ plan_idx <= Len(parsed_data)
    /\ LET e == parsed_data[plan_idx]
           name == out_name(base_name(e.date_str), counter)
           dest == Join(out_dir, name)
       IN  /\ used_names' = AfterInsert(fs, used_names, dest, name)
           /\ IF IsFree(fs, used_names, dest, name)
              THEN /\ planned_moves' =
                        Append(planned_moves, [source |-> e.path, dest |-> dest])
                   /\ plan_idx' = plan_idx + 1
                   /\ counter' = 0
              ELSE /\ counter' = counter + 1
                   /\ UNCHANGED <<planned_moves, plan_idx>>
    /\ finished' = <<>>
    /\ UNCHANGED <<pc, in_dir, out_dir, full_scan, dirs, fs, content, jpeg_files,
                   result, parsed_data, failed_files, move_state,
                   summary, exit_status, fs0, dirs0>>

\* The for loop ends; phase 3 starts.
PlanDone ==
    /\ pc = "planning"
    /\ plan_idx > Len(parsed_data)
    /\ move_state' = [k \in 1..Len(planned_moves) |-> "pending"]
    /\ finished' = <<>>
    /\ pc' = "moving"
    /\ UNCHANGED <<in_dir, out_dir, full_scan, dirs, fs, content, jpeg_files,
                   result, parsed_data, failed_files, planned_moves,
                   used_names, plan_idx, counter, summary, exit_status, fs0, dirs0>>

----------------------------------------------------------------------------
(* Phase 3: parallel I/O execution, lines 132-142 *)

\* A move that would copy: the file is at dest and still at source.
RenameAsCopy(f, ds, source, dest, io_ok) ==
    IF io_ok /\ source \in DOMAIN f /\ dest.dir \in ds
    THEN [ok |-> TRUE,
          fs |-> [p \in DOMAIN f \cup {dest} |->
                    IF p = dest THEN f[source] ELSE f[p]]]
    ELSE [ok |-> FALSE, fs |-> f]

\* fs::rename(source, dest): io_ok is the environment's answer (permission,
\* device, disk).  On success the file is at dest, replacing whatever was
\* there, and no longer at source; on failure nothing changes.
Rename(f, ds, source, dest, io_ok) ==
    IF io_ok /\ source \in DOMAIN f /\ dest.dir \in ds
    THEN [ok |-> TRUE,
          fs |-> [p \in (DOMAIN f \ {source}) \cup {dest} |->
                    IF p = dest THEN f[source] ELSE f[p]]]
    ELSE [ok |-> FALSE, fs |-> f]

\* A sink that would drop the messages of the move stage.
RecordMoveFailureDropped(sink, source) == sink

\* A push without the lock, as one of its races ends: the message takes
\* the slot another worker's message was written to.
RecordMoveFailureUnlocked(sink, source) ==
    IF sink = <<>> THEN <<[stage |-> "move", path |-> source]>>
    ELSE [sink EXCEPT ![Len(sink)] = [stage |-> "move", path |-> source]]

\* failed_files.lock().unwrap().push(format!("Failed to rename ..."))
RecordMoveFailure(sink, source) ==
    Append(sink, [stage |-> "move", path |-> source])

\* A for_each that would stop at the first failed rename (as try_for_each
\* does): the moves not yet started are cancelled.
MoveOrCancel(k) ==
    /\ pc = "moving"
    /\ move_state[k] = "pending"
    /\ \E io_ok \in BOOLEAN :
         LET m == planned_moves[k]
             r == Rename(fs, dirs, m.source, m.dest, io_ok)
         IN  /\ fs' = r.fs
             /\ move_state' =
                   IF r.ok THEN [move_state EXCEPT ![k] = "ok"]
                   ELSE [j \in 1..Len(move_state) |->
                           IF j = k THEN "failed"
                           ELSE IF move_state[j] = "pending" THEN "cancelled"
                           ELSE move_state[j]]
             /\ failed_files' =
                   IF r.ok THEN failed_files
                   ELSE RecordMoveFailure(failed_files, m.source)
    /\ UNCHANGED <<pc, in_dir, out_dir, full_scan, dirs, content, jpeg_files,
                   result, finished, parsed_data, planned_moves, used_names,
                   plan_idx, counter, summary, exit_status, fs0, dirs0>>

\* One worker's closure for planned move k.
Move(k) ==
    /\ pc = "moving"
    /\ move_state[k] = "pending"
    /\ \E io_ok \in BOOLEAN :
         LET m == planned_moves[k]
             r == Rename(fs, dirs, m.source, m.dest, io_ok)
         IN  /\ fs' = r.fs
             /\ move_state' = [move_state EXCEPT
                                 ![k] = IF r.ok THEN "ok" ELSE "failed"]
             /\ failed_files' =
                   IF r.ok THEN failed_files
                   ELSE RecordMoveFailure(failed_files, m.source)
    /\ UNCHANGED <<pc, in_dir, out_dir, full_scan, dirs, content, jpeg_files,
                   result, finished, parsed_data, planned_moves, used_names,
                   plan_idx, counter, summary, exit_status, fs0, dirs0>>

\* for_each returns when every worker has returned.
Phase3Join ==
    /\ pc = "moving"
    /\ \A k \in 1..Len(planned_moves) : move_state[k] # "pending"
    /\ pc' = "reporting"
    /\ UNCHANGED <<in_dir, out_dir, full_scan, dirs, fs, content, jpeg_files,
                   result, finished, parsed_data, failed_files, planned_moves,
                   used_names, plan_idx, counter, move_state, summary,
                   exit_status, fs0, dirs0>>

----------------------------------------------------------------------------
(* Error summary and exit, lines 144-152 *)

\* An exit status that would report per-file failures.
ExitStatusFromFailures(final_failed_files) ==
    IF final_failed_files = <<>> THEN "ok" ELSE "err"

\* main's return value after the summary: Ok(()) whatever the list holds.
ExitStatus(final_failed_files) == "ok"

\* A summary that would take the messages off the end of the list (a loop
\* over pop()), printing the last one first.
ReportLastFirst ==
    /\ pc = "reporting"
    /\ summary' = [n \in 1..Len(failed_files) |->
                     failed_files[Len(failed_files) + 1 - n]]
    /\ exit_status' = ExitStatus(failed_files)
    /\ pc' = "done"
    /\ UNCHANGED <<in_dir, out_dir, full_scan, dirs, fs, content, jpeg_files,
                   result, finished, parsed_data, failed_files, planned_moves,
                   used_names, plan_idx, counter, move_state, fs0, dirs0>>

\* into_inner, the summary printed in the list's order, Ok(()).
Report ==
    /\ pc = "reporting"
    /\ summary' = failed_files
    /\ exit_status' = ExitStatus(failed_files)
    /\ pc' = "done"
    /\ UNCHANGED <<in_dir, out_dir, full_scan, dirs, fs, content, jpeg_files,
                   result, finished, parsed_data, failed_files, planned_moves,
                   used_names, plan_idx, counter, move_state, fs0, dirs0>>

----------------------------------------------------------------------------
Next ==
    \/ SetupInputError
    \/ SetupOutputError
    \/ SetupCreateError
    \/ SetupOk
    \/ \E i \in 1..Len(jpeg_files) : Extract(i)
    \/ Phase1Join
    \/ PlanTrial
    \/ PlanDone
    \/ \E k \in 1..Len(planned_moves) : Move(k)
    \/ Phase3Join
    \/ Report

Spec == Init /\ [][Next]_vars

\* main and the pool's workers run on: the blocking calls return and a
\* step that can be taken is eventually taken.
FairSpec == Spec /\ WF_vars(Next)

----------------------------------------------------------------------------
(* Vocabulary of the properties *)

\* The output directory, as a physical directory.
OutPhys == Resolve(out_dir)

\* out_dir is in_dir itself or a directory below it.
OutInsideIn == IsPrefix(Resolve(in_dir), Resolve(out_dir))

Candidates == 1..Len(jpeg_files)
Moves == 1..Len(planned_moves)

\* Phase 2 is over.
Planned == pc \in {"moving", "reporting", "done"}

\* The naming loop has named every entry of parsed_data: planned_moves and
\* used_names have their final values (phase 3 only reads planned_moves).
NamingOver == pc = "planning" /\ plan_idx > Len(parsed_data)

\* The file that candidate i was when the run began.
FileOf(i) == fs0[jpeg_files[i]]

ExtractionOk(i) == get_date_taken(content[FileOf(i)], full_scan).ok

\* Candidate i's file is at the destination planned for it, by a rename
\* that returned Ok.
Moved(i) ==
    \E k \in Moves :
        /\ planned_moves[k].source = jpeg_files[i]
        /\ move_state[k] = "ok"
        /\ planned_moves[k].dest \in DOMAIN fs
        /\ fs[planned_moves[k].dest] = FileOf(i)

\* The failure messages about candidate i.
RecordsOf(i) ==
    { n \in 1..Len(failed_files) : failed_files[n].path = jpeg_files[i] }

\* The names the naming loop tries for a date string: base, _1, _2, ...
Trial(date_str, c) == out_name(base_name(date_str), c)

\* The files of the output directory when the run began.
PreExisting == { p \in DOMAIN fs0 : p.dir = OutPhys }

----------------------------------------------------------------------------
(* C1 *)

\* C1: after planning, the planned destination paths are pairwise distinct
\* and none of them is a file that was in the output directory when the
\* destinations were planned, whatever the date strings and the directory.
C1_NoCollisions ==
    Planned =>
        /\ \A j, k \in Moves :
              j # k => planned_moves[j].dest # planned_moves[k].dest
        /\ \A k \in Moves : planned_moves[k].dest \notin DOMAIN fs0

\* Two candidates with one date string were planned while the output
\* directory already held that date string's base name.
C1_Witness ==
    /\ Planned
    /\ \E j, k \in 1..Len(parsed_data) :
          /\ j < k
          /\ parsed_data[j].date_str = parsed_data[k].date_str
          /\ Join(out_dir, Trial(parsed_data[j].date_str, 0)) \in PreExisting

----------------------------------------------------------------------------
(* C2 *)

\* C2: when a run that passed setup has finished, every candidate is either
\* a file renamed to its planned destination or a file with a failure
\* message, never both and never neither (and never with two messages).
C2_Partition ==
    pc = "done" =>
        \A i \in Candidates :
            /\ Moved(i) # (RecordsOf(i) # {})
            /\ Cardinality(RecordsOf(i)) <= 1

\* A finished run with a moved file, a failed extraction and a failed
\* rename.
C2_Witness ==
    /\ pc = "done"
    /\ \E i \in Candidates : Moved(i)
    /\ \E n \in 1..Len(failed_files) : failed_files[n].stage = "extraction"
    /\ \E n \in 1..Len(failed_files) : failed_files[n].stage = "move"

----------------------------------------------------------------------------
(* C3 *)

\* Every file that was in the output directory is still at its path.
PreExistingKept ==
    \A p \in PreExisting : p \in DOMAIN fs /\ fs[p] = fs0[p]

\* Every candidate's file is at its source path or at its own planned
\* destination, and nowhere else.
SourcesKeptOrMoved ==
    \A i \in Candidates :
        LET at == { p \in DOMAIN fs : fs[p] = FileOf(i) }
        IN  \/ at = {jpeg_files[i]}
            \/ \E k \in Moves : /\ planned_moves[k].source = jpeg_files[i]
                                /\ at = {planned_moves[k].dest}

\* A candidate whose base name was in the output directory got a suffixed
\* name.
SuffixedWhenBaseExists ==
    \A k \in Moves :
        Join(out_dir, Trial(parsed_data[k].date_str, 0)) \in PreExisting
            => \E c \in 1..(Len(parsed_data) + Cardinality(PreExisting)) :
                   planned_moves[k].dest.name = Trial(parsed_data[k].date_str, c)

\* C3: no run overwrites or loses a file: in every state of the moving
\* phase and after it, every file that was in the output directory before
\* the run is still there unchanged, every source file is at its source
\* path or at exactly its own planned destination, and a candidate whose
\* base name already exists in the output directory has a suffixed name.
C3_NoOverwriteNoLoss ==
    Planned => PreExistingKept /\ SourcesKeptOrMoved /\ SuffixedWhenBaseExists

\* The same statement for the runs whose output directory lies outside the
\* input directory (what the setup check is there to ensure, see C9).
C3_WhenOutOutsideIn ==
    (Planned /\ ~OutInsideIn) =>
        PreExistingKept /\ SourcesKeptOrMoved /\ SuffixedWhenBaseExists

----------------------------------------------------------------------------
(* C4 *)

\* C4: whatever candidates fail extraction, every candidate whose
\* extraction succeeds has a planned move when planning is over and has had
\* its rename attempted when the run has finished.
C4_Isolation ==
    /\ Planned =>
          \A i \in Candidates :
              ExtractionOk(i) =>
                  \E k \in Moves : planned_moves[k].source = jpeg_files[i]
    /\ pc = "done" =>
          \A i \in Candidates :
              ExtractionOk(i) =>
                  \E k \in Moves : /\ planned_moves[k].source = jpeg_files[i]
                                  /\ move_state[k] \in {"ok", "failed"}

\* A finished run in which a candidate failed extraction and a candidate
\* enumerated after it was renamed.
C4_Witness ==
    /\ pc = "done"
    /\ \E i, j \in Candidates :
          /\ i < j
          /\ ~ExtractionOk(i)
          /\ ExtractionOk(j)
          /\ Moved(j)

----------------------------------------------------------------------------
(* C5 *)

\* C5: a failed rename leaves a message of the move stage and its file at
\* the source path; it stops no other move (when the moving phase is over
\* every planned move has been attempted) and undoes none (a move that
\* succeeded has its file at the destination in every later state).
C5_MoveFailureIsolated ==
    /\ \A k \in 1..Len(move_state) :
          /\ move_state[k] = "failed" =>
                /\ \E n \in 1..Len(failed_files) :
                      failed_files[n] = [stage |-> "move",
                                         path |-> planned_moves[k].source]
                /\ planned_moves[k].source \in DOMAIN fs
                /\ fs[planned_moves[k].source] = fs0[planned_moves[k].source]
          /\ move_state[k] = "ok" =>
                /\ planned_moves[k].dest \in DOMAIN fs
                /\ fs[planned_moves[k].dest] = fs0[planned_moves[k].source]
    /\ pc \in {"reporting", "done"} =>
          \A k \in Moves : move_state[k] \in {"ok", "failed"}

\* A finished run in which a rename failed, one succeeded before it and
\* one after it.
C5_Witness ==
    /\ pc = "done"
    /\ Len(move_state) >= 3
    /\ \E k \in Moves : move_state[k] = "failed"
    /\ Cardinality({ k \in Moves : move_state[k] = "ok" }) >= 2

----------------------------------------------------------------------------
(* C6 *)

\* The names that cannot be given to planned move k: those in the output
\* directory and those of the moves planned before it.
TakenBefore(k, name) ==
    \/ Join(out_dir, name) \in DOMAIN fs0
    \/ \E j \in 1..(k - 1) : planned_moves[j].dest.name = name

\* More trials than any naming loop of the run can need.
TrialBound == Len(parsed_data) + Cardinality(PreExisting)

\* Every planned move has the first name of base, _1, _2, ... that is
\* neither claimed nor in the output directory.
SmallestFreeSuffix ==
    /\ Len(planned_moves) = Len(parsed_data)
    /\ \A k \in Moves :
          /\ planned_moves[k].source = parsed_data[k].path
          /\ planned_moves[k].dest.dir = OutPhys
          /\ \E c \in 0..TrialBound :
                /\ planned_moves[k].dest.name = Trial(parsed_data[k].date_str, c)
                /\ ~TakenBefore(k, Trial(parsed_data[k].date_str, c))
                /\ \A b \in 0..(c - 1) :
                      TakenBefore(k, Trial(parsed_data[k].date_str, b))

\* The entries of parsed_data with date string ts, and the position of
\* entry k among them (0 for the first).
Sharing(ts) == { k \in 1..Len(parsed_data) : parsed_data[k].date_str = ts }
RankIn(K, k) == Cardinality({ j \in K : j < k })

\* The output directory holds none of the first n names of ts.
DirHoldsNone(ts, n) ==
    \A c \in 0..(n - 1) : Join(out_dir, Trial(ts, c)) \notin DOMAIN fs0

\* No candidate with another date string was given one of the first n
\* names of ts.
OthersHoldNone(ts, n) ==
    \A j \in Moves :
        parsed_data[j].date_str # ts =>
            \A c \in 0..(n - 1) : planned_moves[j].dest.name # Trial(ts, c)

\* The candidates with date string ts have base, _1, _2, ... in
\* enumeration order.
InSuffixOrder(ts) ==
    \A k \in Sharing(ts) :
        planned_moves[k].dest.name = Trial(ts, RankIn(Sharing(ts), k))

\* C6 as claimed: when the naming loop has named every entry, every
\* planned move has the smallest free suffix, and
\* the candidates sharing a date string have base, _1, _2, ... in
\* enumeration order whenever the directory holds none of those names.
C6_AsClaimed ==
    NamingOver =>
        /\ SmallestFreeSuffix
        /\ \A k \in Moves :
              LET ts == parsed_data[k].date_str
              IN  DirHoldsNone(ts, Cardinality(Sharing(ts))) => InSuffixOrder(ts)

\* C6, amended: when the naming loop has named every entry, every planned
\* move has the smallest free suffix, and the
\* candidates sharing a date string have base, _1, _2, ... in enumeration
\* order whenever neither the directory nor a candidate with another date
\* string holds one of those names.
C6_SmallestFreeSuffix ==
    NamingOver =>
        /\ SmallestFreeSuffix
        /\ \A k \in Moves :
              LET ts == parsed_data[k].date_str
                  n == Cardinality(Sharing(ts))
              IN  (DirHoldsNone(ts, n) /\ OthersHoldNone(ts, n))
                      => InSuffixOrder(ts)

\* Two candidates sharing a date string got base and _1, and a third with
\* another date string and the same base name got _2.
C6_Witness ==
    /\ NamingOver
    /\ \E i, j, k \in Moves :
          /\ i < j
          /\ parsed_data[i].date_str = parsed_data[j].date_str
          /\ parsed_data[k].date_str # parsed_data[i].date_str
          /\ planned_moves[i].dest.name = Trial(parsed_data[i].date_str, 0)
          /\ planned_moves[j].dest.name = Trial(parsed_data[i].date_str, 1)
          /\ planned_moves[k].dest.name = Trial(parsed_data[i].date_str, 2)

\* A candidate skipped a name of the output directory: it has the suffix
\* _2 because the directory held base and _1.
C6_WitnessSkipsDirectory ==
    /\ NamingOver
    /\ \E k \in Moves :
          /\ planned_moves[k].dest.name = Trial(parsed_data[k].date_str, 2)
          /\ Join(out_dir, Trial(parsed_data[k].date_str, 0)) \in PreExisting
          /\ Join(out_dir, Trial(parsed_data[k].date_str, 1)) \in PreExisting

----------------------------------------------------------------------------
(* C7 *)

\* C7: a candidate whose extraction fails has a message of the extraction
\* stage, is the source of no planned move, claims no name (there are as
\* many claimed names as successful extractions) and its file stays at its
\* source path, in every state up to the end of the run.
C7_FailedExtractionUntouched ==
    \A i \in Candidates :
        ~ExtractionOk(i) =>
            /\ jpeg_files[i] \in DOMAIN fs
            /\ fs[jpeg_files[i]] = FileOf(i)
            /\ \A k \in Moves : planned_moves[k].source # jpeg_files[i]
            /\ Planned =>
                  /\ \E n \in 1..Len(failed_files) :
                        failed_files[n] = [stage |-> "extraction",
                                           path |-> jpeg_files[i]]
                  /\ Cardinality(used_names)
                        = Cardinality({ j \in Candidates : ExtractionOk(j) })

\* A finished run in which a candidate failed extraction, while another
\* one was renamed and a third one failed its rename.
C7_Witness ==
    /\ pc = "done"
    /\ \E i \in Candidates : ~ExtractionOk(i) /\ jpeg_files[i] \in DOMAIN fs
    /\ \E j \in Candidates : Moved(j)
    /\ \E k \in Moves : move_state[k] = "failed"

----------------------------------------------------------------------------
(* C8 *)

\* The successful candidates in enumeration order, from the inputs alone.
RECURSIVE SuccessesFrom(_)
SuccessesFrom(i) ==
    IF i > Len(jpeg_files) THEN <<>>
    ELSE LET r == get_date_taken(content[FileOf(i)], full_scan)
         IN  (IF r.ok THEN <<[path |-> jpeg_files[i], date_str |-> r.date_str]>>
              ELSE <<>>) \o SuccessesFrom(i + 1)

\* The smallest counter whose name is neither in the output directory at
\* the start of the run nor in the set used.
FirstFree(date_str, used) ==
    CHOOSE c \in 0..(Len(jpeg_files) + Cardinality(PreExisting)) :
        LET free(b) == /\ Join(out_dir, Trial(date_str, b)) \notin DOMAIN fs0
                       /\ Trial(date_str, b) \notin used
        IN  free(c) /\ \A b \in 0..(c - 1) : ~free(b)

\* The assignment that naming the entries one after the other gives.
RECURSIVE AssignFrom(_, _)
AssignFrom(entries, used) ==
    IF entries = <<>> THEN <<>>
    ELSE LET e == Head(entries)
             name == Trial(e.date_str, FirstFree(e.date_str, used))
         IN  <<[source |-> e.path, dest |-> Join(out_dir, name)]>>
             \o AssignFrom(Tail(entries), used \cup {name})

\* C8: planning consumes the successes in enumeration order, whatever
\* order the workers finished in: throughout planning parsed_data is the
\* enumeration-order list of the successes, and when the naming loop has
\* named every entry the planned moves are the assignment determined by
\* the candidates, their date strings and the output directory alone.
C8_EnumerationOrder ==
    /\ pc = "planning" => parsed_data = SuccessesFrom(1)
    /\ NamingOver => planned_moves = AssignFrom(SuccessesFrom(1), {})

\* Phase 1 has been collected in a run where two candidates with one date
\* string finished extraction in the reverse of their enumeration order.
C8_Witness ==
    /\ pc = "planning"
    /\ Len(parsed_data) >= 2
    /\ \E a, b \in 1..Len(finished) :
          /\ a < b
          /\ finished[a] > finished[b]
          /\ result[finished[a]].st = "ok"
          /\ result[finished[b]].st = "ok"
          /\ result[finished[a]].date_str = result[finished[b]].date_str

----------------------------------------------------------------------------
(* C9 *)

\* C9: if the output directory is the input directory or nested in it, or
\* the input path is not a directory, the run aborts with an error status
\* before any processing: no directory is created, no candidate is
\* enumerated or read and no file is renamed.
C9_SetupAborts ==
    (OutInsideIn \/ Resolve(in_dir) \notin dirs0) =>
        /\ pc \in {"start", "aborted"}
        /\ pc = "aborted" => exit_status = "err"
        /\ dirs = dirs0
        /\ fs = fs0
        /\ jpeg_files = <<>>
        /\ failed_files = <<>>

----------------------------------------------------------------------------
(* C10 *)

\* C10: the exit status reflects only setup failures: a run that passed
\* setup ends with the success status whatever failure messages it
\* collected, and those are what the summary lists; an aborted run ends
\* with the error status.
C10_ExitStatus ==
    /\ pc = "done" => exit_status = "ok" /\ summary = failed_files
    /\ pc = "aborted" => exit_status = "err"
    /\ pc \notin {"done", "aborted"} => exit_status = "none"

\* A finished run with a failed extraction and a failed rename in its
\* summary.
C10_Witness ==
    /\ pc = "done"
    /\ exit_status = "ok"
    /\ \E n \in 1..Len(summary) : summary[n].stage = "extraction"
    /\ \E n \in 1..Len(summary) : summary[n].stage = "move"

----------------------------------------------------------------------------
(* C11 *)

\* The destination that a date string, a claimed-name set and the files on
\* disk determine: the first of base, _1, _2, ... neither claimed nor on
\* disk.
NamerResult(date_str, claimed, f) ==
    LET free(b) == /\ Join(out_dir, Trial(date_str, b)) \notin DOMAIN f
                   /\ Trial(date_str, b) \notin claimed
        c == CHOOSE b \in 0..(Cardinality(claimed) + Cardinality(DOMAIN f)) :
                 free(b) /\ \A a \in 0..(b - 1) : ~free(a)
    IN  Join(out_dir, Trial(date_str, c))

\* C11: naming is deterministic: whenever the Namer assigns a destination,
\* the destination and the new claimed-name set are the values that the
\* date string, the claimed-name set it started from and the directory
\* snapshot determine, so two runs of it from the same three give the same
\* assignment.
C11_NamingDeterministic ==
    [][(pc = "planning" /\ plan_idx' = plan_idx + 1) =>
         LET e == parsed_data[plan_idx]
             d == NamerResult(e.date_str, used_names, fs)
         IN  /\ planned_moves' =
                   Append(planned_moves, [source |-> e.path, dest |-> d])
             /\ used_names' = used_names \cup {d.name}]_vars

\* The Namer has assigned a second destination for one date string, from a
\* claimed-name set that was not empty and with a file of that base name
\* in the directory snapshot.
C11_Witness ==
    /\ pc = "planning"
    /\ plan_idx = 3
    /\ counter = 0
    /\ parsed_data[1].date_str = parsed_data[2].date_str
    /\ Join(out_dir, Trial(parsed_data[1].date_str, 0)) \in DOMAIN fs
    /\ Cardinality(used_names) = 2

----------------------------------------------------------------------------
(* C12 *)

\* The date string of the documented example and the two names expected
\* for it.
ExampleDate ==
    <<"2", "0", "2", "3", ":", "0", "5", ":", "0", "1", " ",
      "1", "0", ":", "0", "0", ":", "0", "0">>
ExampleBase ==
    <<"2", "0", "2", "3", "-", "0", "5", "-", "0", "1", "_",
      "1", "0", "-", "0", "0", "-", "0", "0">>

\* name is date_str with ':' turned into '-' and ' ' into '_' and all else
\* kept, then nothing or '_' and a decimal counter, then ".jpg".
WellFormedName(date_str, name) ==
    LET n == Len(date_str)
        m == Len(name)
    IN  /\ m >= n + Len(JpgExt)
        /\ \A i \in 1..n :
              name[i] = IF date_str[i] = ":" THEN "-"
                        ELSE IF date_str[i] = " " THEN "_"
                        ELSE date_str[i]
        /\ SubSeq(name, m - Len(JpgExt) + 1, m) = JpgExt
        /\ LET mid == SubSeq(name, n + 1, m - Len(JpgExt))
           IN  \/ mid = <<>>
               \/ /\ Len(mid) = 2
                  /\ mid[1] = "_"
                  /\ \E c \in 1..9 : mid[2] = DigitChars[c + 1]

\* The names the naming functions give the documented example for the
\* counters 0, 1 and 12.
ExampleNames ==
    /\ out_name(base_name(ExampleDate), 0) = ExampleBase \o JpgExt
    /\ out_name(base_name(ExampleDate), 1) = ExampleBase \o <<"_", "1">> \o JpgExt
    /\ out_name(base_name(ExampleDate), 12)
          = ExampleBase \o <<"_", "1", "2">> \o JpgExt

\* C12: every destination name is the date string with every ':' replaced
\* by '-' and every space by '_', all other characters kept, followed by
\* ".jpg", a suffixed name having '_' and the counter between the two; so
\* the documented example gives 2023-05-01_10-00-00.jpg and
\* 2023-05-01_10-00-00_1.jpg, and counter 12 is written _12.
C12_NameFormat ==
    /\ \A k \in Moves :
          WellFormedName(parsed_data[k].date_str, planned_moves[k].dest.name)
    /\ ExampleNames

\* A date string with two colons and two spaces was given a suffixed
\* name.
C12_Witness ==
    \E k \in Moves :
        /\ parsed_data[k].date_str = TsC
        /\ Len(planned_moves[k].dest.name) = Len(TsC) + 2 + Len(JpgExt)

----------------------------------------------------------------------------
(* C13 *)

\* Some destination has been assigned or is being looked for.
NamingBegun == pc = "planning" \/ planned_moves # <<>> \/ used_names # {}

\* Some rename has been attempted.
MovingBegun ==
    \/ \E k \in 1..Len(move_state) : move_state[k] # "pending"
    \/ fs # fs0

\* C13: the phases are separated by barriers: no destination is assigned
\* before every extraction task has finished, and no rename is attempted
\* before every destination has been assigned.
C13_Barriers ==
    /\ NamingBegun =>
          /\ \A i \in Candidates : result[i].st # "pending"
          /\ finished = <<>> \/ Len(finished) = Len(jpeg_files)
    /\ MovingBegun =>
          /\ plan_idx > Len(parsed_data)
          /\ Len(planned_moves) = Len(parsed_data)
          /\ \A i \in Candidates :
                ExtractionOk(i) =>
                    \E k \in Moves : planned_moves[k].source = jpeg_files[i]

\* A rename has been attempted in a run with three candidates of which
\* two were given destinations.
C13_Witness ==
    /\ MovingBegun
    /\ Len(jpeg_files) = 3
    /\ Len(planned_moves) = 2

----------------------------------------------------------------------------
(* C14 *)

\* The order of the pipeline's states.
PhaseOrder ==
    { <<"start", "aborted">>, <<"start", "extracting">>,
      <<"extracting", "planning">>, <<"planning", "moving">>,
      <<"moving", "reporting">>, <<"reporting", "done">> }

\* C14: every run that passes setup eventually reaches done, through
\* extracting, planning, moving and reporting in that order and with no
\* other state on the way, whatever extractions and renames fail; so every
\* naming loop terminates (the modelled directories hold finitely many
\* files).
C14_ReachesDone ==
    /\ [][pc' # pc => <<pc, pc'>> \in PhaseOrder]_vars
    /\ (pc = "extracting") ~> (pc = "done")

\* A finished run in which an extraction failed, a rename failed and a
\* naming loop went round more than once.
C14_Witness ==
    /\ pc = "done"
    /\ \E i \in Candidates : ~ExtractionOk(i)
    /\ \E k \in Moves : move_state[k] = "failed"
    /\ \E k \in Moves :
          planned_moves[k].dest.name # Trial(parsed_data[k].date_str, 0)

----------------------------------------------------------------------------
(* C15 *)

\* The naming loop is at work on parsed_data[plan_idx]; counter trials
\* have been rejected and one more is about to be made.
Naming == pc = "planning" /\ plan_idx <= Len(parsed_data)

\* name is one of the names base, _1, _2, ... of date string ts.
InSequenceOf(ts, name) ==
    \E b \in 0..(Len(parsed_data) + Cardinality(PreExisting)) : name = Trial(ts, b)

\* The files of the output directory with a name of ts's sequence.
OnDiskInSequence(ts) == { p \in PreExisting : InSequenceOf(ts, p.name) }

\* The planned moves of candidates with another date string that hold a
\* name of ts's sequence.
OthersInSequence(ts) ==
    { j \in Moves : /\ parsed_data[j].date_str # ts
                    /\ InSequenceOf(ts, planned_moves[j].dest.name) }

\* C15 as claimed: for N candidates sharing a date string, the naming loop
\* makes at most N trials for any one of them.
C15_AsClaimed ==
    Naming =>
        counter + 1 <= Cardinality(Sharing(parsed_data[plan_idx].date_str))

\* C15, amended: for N candidates sharing a date string, the naming loop
\* makes at most N trials for any one of them, plus one for every name of
\* that date string's sequence that is in the output directory or was
\* given to a candidate with another date string.
C15_TrialsBounded ==
    Naming =>
        LET ts == parsed_data[plan_idx].date_str
        IN  counter + 1 <= Cardinality(Sharing(ts))
                           + Cardinality(OnDiskInSequence(ts))
                           + Cardinality(OthersInSequence(ts))

\* The second of two candidates sharing a date string is about to make its
\* third trial, the output directory holding that date string's base name.
C15_Witness ==
    /\ Naming
    /\ counter = 2
    /\ Cardinality(Sharing(parsed_data[plan_idx].date_str)) = 2
    /\ Cardinality(OnDiskInSequence(parsed_data[plan_idx].date_str)) = 1
    /\ OthersInSequence(parsed_data[plan_idx].date_str) = {}

----------------------------------------------------------------------------
(* C16 *)

\* The destination file names of the planned moves so far.
PlannedNames == { planned_moves[k].dest.name : k \in Moves }

\* C16: the claimed-name set is at every moment exactly the set of the
\* destination names of the planned moves so far; it only grows, a step of
\* the naming loop adds at most the name it assigns, and a trial that is
\* rejected (the name is on disk or already claimed) adds nothing.
C16_ClaimedNames ==
    /\ [](used_names = PlannedNames)
    /\ [][/\ used_names \subseteq used_names'
          /\ planned_moves' = planned_moves => used_names' = used_names
          /\ planned_moves' # planned_moves =>
                used_names' = used_names
                    \cup {planned_moves'[Len(planned_moves')].dest.name}]_vars

\* The first candidate has been planned after a trial that was rejected
\* because its base name is on disk: one name is claimed, the suffixed one.
C16_Witness ==
    /\ pc = "planning"
    /\ plan_idx = 2
    /\ Join(out_dir, Trial(parsed_data[1].date_str, 0)) \in PreExisting
    /\ used_names = {Trial(parsed_data[1].date_str, 1)}

----------------------------------------------------------------------------
(* C17 *)

\* The positions of message m in list q.
PositionsOf(q, m) == { n \in 1..Len(q) : q[n] = m }

\* The extractions that have failed and the renames that have failed, so
\* far.
FailedExtractions == { i \in 1..Len(result) : result[i].st = "err" }
FailedRenames == { k \in 1..Len(move_state) : move_state[k] = "failed" }

\* List q holds exactly one message per failed extraction and one per
\* failed rename, and nothing else.
HoldsEveryFailureOnce(q) ==
    /\ \A i \in FailedExtractions :
          Cardinality(PositionsOf(q, [stage |-> "extraction",
                                      path |-> jpeg_files[i]])) = 1
    /\ \A k \in FailedRenames :
          Cardinality(PositionsOf(q, [stage |-> "move",
                                      path |-> planned_moves[k].source])) = 1
    /\ Len(q) = Cardinality(FailedExtractions) + Cardinality(FailedRenames)

\* C17: the sink loses no message under concurrent pushes (in every state
\* it holds exactly one per failure so far), the list printed at the end
\* holds exactly one message per failed extraction and one per failed
\* rename, and nothing is printed while a worker of either phase has yet
\* to return.
C17_SinkComplete ==
    /\ HoldsEveryFailureOnce(failed_files)
    /\ pc = "done" => HoldsEveryFailureOnce(summary)
    /\ summary # <<>> =>
          /\ pc = "done"
          /\ \A i \in 1..Len(result) : result[i].st # "pending"
          /\ \A k \in 1..Len(move_state) : move_state[k] # "pending"
    /\ pc # "done" => summary = <<>>

\* A finished run whose summary holds one extraction message and two
\* rename messages.
C17_Witness ==
    /\ pc = "done"
    /\ Len(summary) = 3
    /\ Cardinality(FailedExtractions) = 1
    /\ Cardinality(FailedRenames) = 2

----------------------------------------------------------------------------
(* C18 *)

\* In list q no message of the move stage comes before one of the
\* extraction stage.
ExtractionBeforeMove(q) ==
    \A m, n \in 1..Len(q) :
        (q[m].stage = "move" /\ q[n].stage = "extraction") => n < m

\* C18: the summary prints the messages in the order they were inserted
\* (the sink only ever grows at its end, and the printed list is the sink),
\* and every extraction message comes before every move message, whatever
\* the workers' interleaving.
C18_SummaryOrder ==
    /\ [](ExtractionBeforeMove(failed_files) /\ ExtractionBeforeMove(summary))
    /\ [](pc = "done" => summary = failed_files)
    /\ [][\/ failed_files' = failed_files
          \/ /\ Len(failed_files') = Len(failed_files) + 1
             /\ SubSeq(failed_files', 1, Len(failed_files)) = failed_files]_vars

\* A printed summary in which two extraction messages stand in the
\* reverse of the enumeration order (the order within a stage varies) and
\* a move message follows them.
C18_Witness ==
    /\ pc = "done"
    /\ Len(summary) = 3
    /\ summary[1].stage = "extraction"
    /\ summary[2].stage = "extraction"
    /\ summary[3].stage = "move"
    /\ \E i, j \in Candidates :
          /\ i < j
          /\ summary[1].path = jpeg_files[j]
          /\ summary[2].path = jpeg_files[i]

----------------------------------------------------------------------------
(* C19 *)

\* The planned moves whose rename has returned Ok.
DoneMoves == { k \in Moves : move_state[k] = "ok" }

\* The files that the planned moves and their outcomes determine, in
\* whatever order the renames ran: a file whose rename returned Ok is at
\* its destination and not at its source, every other file is where it was.
FilesAfter(k_ok) ==
    LET gone == { planned_moves[k].source : k \in k_ok }
        new == { planned_moves[k].dest : k \in k_ok }
    IN  [p \in (DOMAIN fs0 \ gone) \cup new |->
            IF p \in new
            THEN fs0[planned_moves[CHOOSE k \in k_ok :
                                      planned_moves[k].dest = p].source]
            ELSE fs0[p]]

\* C19: no planned move's destination is the source of a planned move,
\* and in every state of the moving phase and after it the files on disk
\* are those that the planned moves and the renames' outcomes so far
\* determine, whatever order the move workers ran in.
C19_MovesIndependent ==
    /\ \A j, k \in Moves : planned_moves[j].dest # planned_moves[k].source
    /\ Planned => fs = FilesAfter(DoneMoves)

\* Three renames have been attempted: two returned Ok and one failed, and
\* the moving phase has not been joined yet.
C19_Witness ==
    /\ pc = "moving"
    /\ Len(move_state) = 3
    /\ Cardinality(DoneMoves) = 2
    /\ Cardinality(FailedRenames) = 1

====
